---- MODULE Spec2Model ----
(***************************************************************************)
(* Model of src/main.py: MCPClient (connect_to_server, process_query,      *)
(* chat_loop, cleanup) and main.                                           *)
(*                                                                         *)
(* Texts are sequences of tokens.  A token is a run of characters that the *)
(* program only ever handles as a whole: "FENCE" (three back-quotes),       *)
(* "json"/"JSON" (the fence label in lower/upper case), "\n", " ", a       *)
(* template placeholder, a JSON document, or a run of prose.               *)
(***************************************************************************)
EXTENDS Integers, Sequences, FiniteSets, TLC

\* ------------------------------------------------------------------ bounds
\* A model response is a concatenation of at most MaxUnits units (see Units).
MaxUnits == 2

\* ------------------------------------------------------------ text helpers
\* Python's None, as returned by re.search when nothing matches.
None == -1

\* str.lower() on one token.
LowerTok(t) ==
  CASE t = "JSON" -> "json"
    [] t = "ADD" -> "add"
    [] t = "X" -> "x"
    [] t = "QUIT" -> "quit"
    [] t = "Hello" -> "hello"
    [] OTHER -> t

\* str.lower()
Lower(s) == [i \in DOMAIN s |-> LowerTok(s[i])]

\* s[a:b] with 0 <= a <= b <= len(s)
Slice(s, a, b) == SubSeq(s, a + 1, b)

\* s[a:]
SliceFrom(s, a) == SubSeq(s, a + 1, Len(s))

\* TRUE iff pat occurs in s at 0-based offset i
MatchesAt(pat, s, i) ==
  /\ i + Len(pat) <= Len(s)
  /\ \A k \in 1..Len(pat) : s[i + k] = pat[k]

\* re.search(pat, s).span()[0] for a literal pattern; None when no match
SearchStart(pat, s) ==
  LET hits == {i \in 0..Len(s) : MatchesAt(pat, s, i)}
  IN IF hits = {} THEN None
     ELSE CHOOSE i \in hits : \A j \in hits : i <= j

\* re.search(pat, s).span()[1]
SearchEnd(pat, s) == SearchStart(pat, s) + Len(pat)

\* pat in s
Contains(pat, s) == SearchStart(pat, s) # None

RECURSIVE LStrip(_, _)
LStrip(s, c) ==
  IF s # <<>> /\ Head(s) = c THEN LStrip(Tail(s), c) ELSE s

RECURSIVE RStrip(_, _)
RStrip(s, c) ==
  IF s # <<>> /\ s[Len(s)] = c THEN RStrip(SubSeq(s, 1, Len(s) - 1), c) ELSE s

\* str.strip(c) for a one-character c; str.strip() is Strip(s, " ")
Strip(s, c) == RStrip(LStrip(s, c), c)

\* str.replace(old, new) for a one-token old
RECURSIVE Replace(_, _, _)
Replace(s, old, new) ==
  IF s = <<>> THEN <<>>
  ELSE (IF Head(s) = old THEN new ELSE <<Head(s)>>) \o Replace(Tail(s), old, new)

\* --------------------------------------------------------------- constants
\* The opening fence marker searched by process_query: ```json
OpenFence == <<"FENCE", "json">>

\* The closing fence searched by process_query: ```
CloseFence == <<"FENCE">>

TOOL_SYS_PROMPT == <<"You are a helpful assistant">>

TOOL_PROMPT ==
  <<"## Available Tools:", "{tools}", "## Task:", "{query}", "## Output Format:">>

RESULT_PROMPT ==
  <<"The result", "{results}", "is obtain by tools you proposed to solve the",
    "{query}", "Please check the result">>

\* ------------------------------------------------------------------- json
\* Tokens that are one complete JSON document, with the value json.loads
\* gives for each.  "ADD" is the document of "add" written with upper-case
\* letters in its strings; "noargs" is a mapping without a tool_args field.
JsonDocs == {"add", "ADD", "sub", "noargs", "list"}

JsonValue(t) ==
  CASE t = "add" -> [tool_name |-> "add", tool_args |-> [a |-> 2, b |-> 2]]
    [] t = "ADD" -> [tool_name |-> "ADD", tool_args |-> [A |-> 2, B |-> 2]]
    [] t = "sub" -> [tool_name |-> "sub", tool_args |-> [a |-> 5, b |-> 3]]
    [] t = "noargs" -> [tool_name |-> "add"]
    [] t = "list" -> [items |-> <<1, 2>>]

\* A parsed value is a dict; the JSON array [1, 2] is held as its items.
IsMapping(v) == "items" \notin DOMAIN v

\* The JSON text of s with the surrounding JSON whitespace removed.
JsonBody(s) == Strip(Strip(Strip(s, " "), "\n"), " ")

\* json.loads(s) raises JSONDecodeError
JsonInvalid(s) == ~(Len(JsonBody(s)) = 1 /\ JsonBody(s)[1] \in JsonDocs)

\* json.loads(s)
JsonLoads(s) == JsonValue(JsonBody(s)[1])

\* json.dumps(tool_results): the list of one-entry mappings as text
RECURSIVE JsonDumps(_)
JsonDumps(rs) ==
  IF rs = <<>> THEN <<>>
  ELSE <<"{", rs[1][1], ":", rs[1][2], "}">> \o JsonDumps(Tail(rs))

\* ------------------------------------------------------------------ inputs
\* What the completion endpoint may answer first: up to MaxUnits units, each
\* either prose with an optional bare fence after it, or an opening fence
\* (label in either case) with an optional payload and an optional closing
\* fence.
Openers == {<<"FENCE", "json">>, <<"FENCE", "JSON">>}
Payloads == {<<>>, <<"ADD">>, <<"\n", "sub", "\n">>, <<"list">>, <<"noargs">>}
Closers == {<<>>, <<"FENCE">>}
Units ==
  {p \o c : p \in {<<>>, <<"X">>}, c \in Closers}
    \cup {o \o p \o c : o \in Openers, p \in Payloads, c \in Closers}

RECURSIVE Texts(_)
Texts(n) ==
  IF n = 0 THEN {<<>>}
  ELSE LET shorter == Texts(n - 1)
       IN shorter \cup {t \o u : t \in shorter, u \in Units}

Responses == Texts(MaxUnits)

\* What the completion endpoint may answer to the second request.
SecondResponses == {<<"X">>, <<"FENCE", "JSON", "ADD", "FENCE">>, <<"FENCE", "json", "sub", "FENCE">>}

\* Lines the user may type.
Lines ==
  {<<"quit">>, <<"QUIT">>, <<" ", "quit", " ">>, <<" ", "Hello">>, <<"Hello", "{results}">>}

\* Texts a tool may return as result.content[0].text
ResultTexts == {"4", "2"}

\* Tool catalogs list_tools() may return.
\* A description is free text the tool server wrote: a sequence of tokens.
AddTool == [name |-> "add", description |-> <<"Add two numbers">>, inputSchema |-> "{a,b}"]
SubTool == [name |-> "sub", description |-> <<"Subtract">>, inputSchema |-> "{a,b}"]
EchoTool == [name |-> "echo", description |-> <<"Answers", "{query}", "verbatim">>,
             inputSchema |-> "{text}"]
Catalogs == {<<>>, <<AddTool, SubTool>>, <<EchoTool>>}

\* ------------------------------------------------------------------- state
VARIABLES
  pc,            \* where main / chat_loop / process_query stands
  session,       \* self.session: "none" or "live"
  tools_prompt,  \* self.tools_prompt
  line,          \* the line input() returned last, before strip()
  query,         \* chat_loop's query
  messages,      \* process_query's messages
  content,       \* process_query's content
  tool_calls,    \* process_query's tool_calls
  tool_results,  \* process_query's tool_results
  events,        \* requests of the current turn to the completion endpoint and
                 \* the tool session, in the order issued, each with its outcome
  output,        \* what chat_loop printed for the current turn
  reported,      \* chat_loop has printed an error that process_query raised
                 \* in an earlier turn
  failure,       \* the exception main is ending with, "none" when there is none
  cleanups       \* how many times cleanup() has run

vars == <<pc, session, tools_prompt, line, query, messages, content, tool_calls,
          tool_results, events, output, reported, failure, cleanups>>

NoOutput == [kind |-> "none", val |-> <<>>]

Init ==
  /\ pc = "connect"
  /\ session = "none"
  /\ tools_prompt = TOOL_PROMPT
  /\ line = <<>>
  /\ query = <<>>
  /\ messages = <<>>
  /\ content = <<>>
  /\ tool_calls = <<>>
  /\ tool_results = <<>>
  /\ events = <<>>
  /\ output = NoOutput
  /\ reported = FALSE
  /\ failure = "none"
  /\ cleanups = 0

\* ------------------------------------------------------------------ events
Completion(msgs, ok, val) == [op |-> "completion", arg |-> msgs, ok |-> ok, val |-> val]
ToolCall(name, args, ok, val) ==
  [op |-> "call_tool", arg |-> <<name, args>>, ok |-> ok, val |-> val]

\* --------------------------------------------------------- connect_to_server
RECURSIVE ToolsList(_)
ToolsList(tools) ==
  IF tools = <<>> THEN <<>>
  ELSE <<"tool_name:", tools[1].name, "description:">> \o tools[1].description
         \o <<"input_schema:", tools[1].inputSchema>> \o ToolsList(Tail(tools))

ConnectOk ==
  /\ pc = "connect"
  /\ \E tools \in Catalogs :
       tools_prompt' = Replace(TOOL_PROMPT, "{tools}", ToolsList(tools))
  /\ session' = "live"
  /\ pc' = "read"
  /\ UNCHANGED <<line, query, messages, content, tool_calls, tool_results,
                 events, output, reported, failure, cleanups>>

\* ConnectFail with a plausible slip: the error is swallowed and main goes on
ConnectFailIgnored ==
  /\ pc = "connect"
  /\ \E s \in {"none", "live"} : session' = s
  /\ failure' = "ConnectError"
  /\ pc' = "read"
  /\ UNCHANGED <<tools_prompt, line, query, messages, content, tool_calls,
                 tool_results, events, output, reported, cleanups>>

\* the transport (before self.session is set at line 88), initialize() or
\* list_tools() (after it) raises: main's finally runs next
ConnectFail ==
  /\ pc = "connect"
  /\ \E s \in {"none", "live"} : session' = s
  /\ failure' = "ConnectError"
  /\ pc' = "cleanup"
  /\ UNCHANGED <<tools_prompt, line, query, messages, content, tool_calls,
                 tool_results, events, output, reported, cleanups>>

\* ------------------------------------------------------------------ chat_loop
\* process_query's frame is gone: its locals no longer exist
FrameGone ==
  /\ messages' = <<>>
  /\ content' = <<>>
  /\ tool_calls' = <<>>
  /\ tool_results' = <<>>

\* Caught with a plausible slip: no except clause, the error leaves chat_loop
Uncaught(e) ==
  /\ output' = NoOutput
  /\ pc' = "cleanup"
  /\ FrameGone

\* `except Exception as e: print(f"\nError: {str(e)}")`, then the next iteration
Caught(e) ==
  /\ output' = [kind |-> "error", val |-> <<"\n", "Error: ", e>>]
  /\ pc' = "read"
  /\ FrameGone

\* `response = await self.process_query(query); print("\n" + response)`
Returned(response) ==
  /\ output' = [kind |-> "answer", val |-> <<"\n">> \o response]
  /\ pc' = "read"
  /\ FrameGone

\* IsQuit with a plausible slip: the comparison without lower()
IsQuitExactCase(q) == q = <<"quit">>

\* `query.lower() == "quit"`
IsQuit(q) == Lower(q) = <<"quit">>

\* query = input("\nQuery: ").strip(); quit check; else process_query is entered
ReadLine ==
  /\ pc = "read"
  /\ \E l \in Lines :
       /\ line' = l
       /\ query' = Strip(l, " ")
       /\ pc' = IF IsQuit(Strip(l, " ")) THEN "cleanup" ELSE "propose"
  /\ reported' = (reported \/ (output.kind = "error" /\ events # <<>>))
  /\ output' = NoOutput
  /\ events' = <<>>
  /\ UNCHANGED <<session, tools_prompt, messages, content, tool_calls, tool_results,
                 failure, cleanups>>

\* ReadRaises with a plausible slip: input() is outside the try, its error
\* leaves chat_loop
ReadRaisesEnds ==
  /\ pc = "read"
  /\ reported' = (reported \/ (output.kind = "error" /\ events # <<>>))
  /\ events' = <<>>
  /\ Uncaught("EOFError")
  /\ UNCHANGED <<session, tools_prompt, line, query, failure, cleanups>>

\* input() raises (end of input): caught by the loop's except
ReadRaises ==
  /\ pc = "read"
  /\ reported' = (reported \/ (output.kind = "error" /\ events # <<>>))
  /\ events' = <<>>
  /\ Caught("EOFError")
  /\ UNCHANGED <<session, tools_prompt, line, query, failure, cleanups>>

\* ------------------------------------------------------------- process_query
FirstMessages ==
  << [rolse |-> "system", content |-> TOOL_SYS_PROMPT],
     [role |-> "user", content |-> Replace(tools_prompt, "{query}", query)] >>

\* FirstContent with a plausible slip: the response taken as it is
FirstContentAsIs(r) == r

\* `content = response.choices[0].message.content.lower()`
FirstContent(r) == Lower(r)

\* PromptKept with a plausible slip: the filled-in prompt is stored back
PromptOverwritten == tools_prompt' = Replace(tools_prompt, "{query}", query)

\* line 115 reads self.tools_prompt; str.replace returns a new string and
\* nothing in process_query assigns self.tools_prompt
PromptKept == tools_prompt' = tools_prompt

\* lines 107-132: build the messages, first completion, lower-case the answer
Propose ==
  /\ pc = "propose"
  /\ \/ \E r \in Responses :
          /\ events' = Append(events, Completion(FirstMessages, TRUE, r))
          /\ content' = FirstContent(r)
          /\ messages' = Append(FirstMessages,
                                [role |-> "assistant", content |-> FirstContent(r)])
          /\ tool_calls' = <<>>
          /\ pc' = "extract"
          /\ UNCHANGED <<tool_results, output>>
     \/ /\ events' = Append(events, Completion(FirstMessages, FALSE, "APIError"))
        /\ Caught("APIError")
  /\ PromptKept
  /\ UNCHANGED <<session, line, query, reported, failure, cleanups>>

\* `re.search(r"```", content[json_start:])` is None: .span() raises
NoClosingFence == Caught("AttributeError")

\* BadPayload with a plausible slip: the malformed block is skipped
BadPayloadSkipped(json_end) ==
  /\ content' = SliceFrom(content, json_end)
  /\ UNCHANGED <<pc, messages, tool_calls, tool_results, output>>

\* json.loads(tool_josn) raises; json_end is where the block's closing fence starts
BadPayload(json_end) == Caught("JSONDecodeError")

\* Advance with a plausible slip: the scan position is not moved
AdvanceForgotten(c, json_end) == c

\* `content = content[json_end:]`
Advance(c, json_end) == SliceFrom(c, json_end)

\* lines 136-142: one iteration of the extraction loop
ExtractStep ==
  /\ pc = "extract"
  /\ Contains(OpenFence, content)
  /\ LET json_start == SearchEnd(OpenFence, content)
         close == SearchStart(CloseFence, SliceFrom(content, json_start))
         json_end == close + json_start
         tool_josn == Strip(Slice(content, json_start, json_end), "\n")
     IN IF close = None THEN NoClosingFence
        ELSE IF JsonInvalid(tool_josn) THEN BadPayload(json_end)
        ELSE /\ tool_calls' = Append(tool_calls, JsonLoads(tool_josn))
             /\ content' = Advance(content, json_end)
             /\ UNCHANGED <<pc, messages, tool_results, output>>
  /\ UNCHANGED <<session, tools_prompt, line, query, events, reported, failure,
                 cleanups>>

\* lines 136, 144-148: the loop ends; answer directly or start dispatching
ExtractDone ==
  /\ pc = "extract"
  /\ ~Contains(OpenFence, content)
  /\ IF Len(tool_calls) = 0 THEN Returned(content)
     ELSE /\ tool_results' = <<>>
          /\ pc' = "dispatch"
          /\ UNCHANGED <<messages, content, tool_calls, output>>
  /\ UNCHANGED <<session, tools_prompt, line, query, events, reported, failure,
                 cleanups>>

\* MissingField with a plausible slip: the block is skipped and the loop goes on
MissingFieldSkipped ==
  /\ tool_results' = Append(tool_results, <<"none", "skipped">>)
  /\ UNCHANGED <<pc, messages, content, tool_calls, output, events>>

\* `tool_call["tool_name"]` / `tool_call["tool_args"]` on a dict without that
\* key raises KeyError: nothing in process_query catches it
MissingField == Caught("KeyError") /\ UNCHANGED events

\* ToolRaised with a plausible slip: the error is swallowed and the loop goes on
ToolRaisedSwallowed(tool_name, tool_args) ==
  /\ events' = Append(events, ToolCall(tool_name, tool_args, FALSE, "McpError"))
  /\ tool_results' = Append(tool_results, <<tool_name, "McpError">>)
  /\ UNCHANGED <<pc, messages, content, tool_calls, output>>

\* `await self.session.call_tool(tool_name, tool_args)` raises: nothing in
\* process_query catches it
ToolRaised(tool_name, tool_args) ==
  /\ events' = Append(events, ToolCall(tool_name, tool_args, FALSE, "McpError"))
  /\ Caught("McpError")

\* lines 149-153: one iteration of the dispatch loop
CallTool ==
  /\ pc = "dispatch"
  /\ Len(tool_results) < Len(tool_calls)
  /\ LET tool_call == tool_calls[Len(tool_results) + 1]
     IN IF ~IsMapping(tool_call)
        THEN Caught("TypeError") /\ UNCHANGED events
        ELSE IF ~({"tool_name", "tool_args"} \subseteq DOMAIN tool_call)
        THEN MissingField
        ELSE LET tool_name == tool_call.tool_name
                 tool_args == tool_call.tool_args
             IN \/ \E text \in ResultTexts :
                     /\ events' = Append(events, ToolCall(tool_name, tool_args, TRUE, text))
                     /\ tool_results' = Append(tool_results, <<tool_name, text>>)
                     /\ UNCHANGED <<pc, messages, content, tool_calls, output>>
                \/ ToolRaised(tool_name, tool_args)
                \/ /\ events' = Append(events, ToolCall(tool_name, tool_args, TRUE, "no content"))
                   /\ Caught("IndexError")
  /\ UNCHANGED <<session, tools_prompt, line, query, reported, failure, cleanups>>

SecondMessages ==
  Append(messages,
         [role |-> "user",
          content |-> Replace(Replace(RESULT_PROMPT, "{query}", query),
                              "{results}", JsonDumps(tool_results))])

\* FinalAnswer with a plausible slip: the second response lower-cased like the first
FinalAnswerLowered(r) == Lower(r)

\* `return response.choices[0].message.content`
FinalAnswer(r) == r

\* SecondAnswered with a plausible slip: the second response goes through extraction too
SecondAnsweredExtracts(r) ==
  /\ content' = Lower(r)
  /\ tool_calls' = <<>>
  /\ tool_results' = <<>>
  /\ pc' = "extract"
  /\ UNCHANGED <<messages, output>>

\* line 168: the second response is the answer of process_query
SecondAnswered(r) == Returned(FinalAnswer(r))

\* lines 154-168: serialize the results, second completion, return its text
Resolve ==
  /\ pc = "dispatch"
  /\ Len(tool_results) = Len(tool_calls)
  /\ \/ \E r \in SecondResponses :
          /\ events' = Append(events, Completion(SecondMessages, TRUE, r))
          /\ SecondAnswered(r)
     \/ /\ events' = Append(events, Completion(SecondMessages, FALSE, "APIError"))
        /\ Caught("APIError")
  /\ UNCHANGED <<session, tools_prompt, line, query, reported, failure, cleanups>>

\* ---------------------------------------------------------------------- main
\* Cleanup with a plausible slip: main ends without running its finally
CleanupSkipped ==
  /\ pc = "cleanup"
  /\ pc' = "exited"
  /\ UNCHANGED <<session, tools_prompt, line, query, messages, content, tool_calls,
                 tool_results, events, output, reported, failure, cleanups>>

\* `finally: await client.cleanup()`: the exit stack closes the session and
\* the transport it owns, then main ends
Cleanup ==
  /\ pc = "cleanup"
  /\ session' = IF session = "live" THEN "closed" ELSE session
  /\ cleanups' = cleanups + 1
  /\ pc' = "exited"
  /\ UNCHANGED <<tools_prompt, line, query, messages, content, tool_calls,
                 tool_results, events, output, reported, failure>>

\* a BaseException that is no Exception (KeyboardInterrupt, CancelledError) is
\* raised inside chat_loop: `except Exception` lets it pass, main's finally
\* runs next
Interrupt ==
  /\ pc \in {"read", "propose", "extract", "dispatch"}
  /\ failure' = "KeyboardInterrupt"
  /\ pc' = "cleanup"
  /\ FrameGone
  /\ events' = <<>>
  /\ output' = NoOutput
  /\ UNCHANGED <<session, tools_prompt, line, query, reported, cleanups>>

Next ==
  \/ ConnectOk
  \/ ConnectFail
  \/ ReadLine
  \/ ReadRaises
  \/ Propose
  \/ ExtractStep
  \/ ExtractDone
  \/ CallTool
  \/ Resolve
  \/ Interrupt
  \/ Cleanup

Spec == Init /\ [][Next]_vars

\* ============================================================== properties
\* Positions in events of the requests to the completion endpoint and of the
\* calls of the tool session's call_tool.
CompletionIdx == {i \in DOMAIN events : events[i].op = "completion"}
ToolIdx == {i \in DOMAIN events : events[i].op = "call_tool"}

\* What chat_loop prints for an answer and for an error.
Answered(r) == [kind |-> "answer", val |-> <<"\n">> \o r]
Reported(e) == [kind |-> "error", val |-> <<"\n", "Error: ", e>>]

\* The first completion of the current turn returned a text.
FirstReturned == events # <<>> /\ events[1].ok

\* The fenced blocks of a text, read as section 4.3 of the specification
\* reads them: the payload between each opening fence and the next closing
\* fence, the scan going on after that closing fence.  The fence label is
\* matched in any letter case; the payloads are as written.
RECURSIVE TextBlocks(_)
TextBlocks(t) ==
  IF ~Contains(OpenFence, Lower(t)) THEN <<>>
  ELSE LET from == SearchEnd(OpenFence, Lower(t))
           close == SearchStart(CloseFence, SliceFrom(t, from))
       IN IF close = None THEN <<>>
          ELSE <<Slice(t, from, from + close)>>
               \o TextBlocks(SliceFrom(t, from + close + Len(CloseFence)))

\* Some opening fence of the text, read the same way, has no closing fence.
RECURSIVE HasUnterminated(_)
HasUnterminated(t) ==
  /\ Contains(OpenFence, Lower(t))
  /\ LET from == SearchEnd(OpenFence, Lower(t))
         close == SearchStart(CloseFence, SliceFrom(t, from))
     IN \/ close = None
        \/ HasUnterminated(SliceFrom(t, from + close + Len(CloseFence)))

\* A payload that is a tool call: a mapping with tool_name and tool_args.
IsToolCall(payload) ==
  /\ ~JsonInvalid(payload)
  /\ {"tool_name", "tool_args"} \subseteq DOMAIN JsonLoads(payload)

\* A text all of whose fenced blocks are well-formed tool calls.
WellFormed(t) ==
  /\ ~HasUnterminated(t)
  /\ \A i \in DOMAIN TextBlocks(t) : IsToolCall(TextBlocks(t)[i])

\* A text with a malformed block, read the same way: an opening fence
\* without closing fence, or a payload that is not valid JSON.
RECURSIVE Malformed(_)
Malformed(t) ==
  /\ Contains(OpenFence, Lower(t))
  /\ LET from == SearchEnd(OpenFence, Lower(t))
         close == SearchStart(CloseFence, SliceFrom(t, from))
     IN \/ close = None
        \/ JsonInvalid(Slice(t, from, from + close))
        \/ Malformed(SliceFrom(t, from + close + Len(CloseFence)))

\* C1: in one call of process_query the completion endpoint is invoked at most
\* twice, and the second completion is the last thing the turn does: no tool
\* is called after it, its text is not extracted from, and when it returns a
\* text that text is the answer.
C1_TwoRoundsAtMost ==
  /\ Cardinality(CompletionIdx) <= 2
  /\ \A j \in CompletionIdx : j > 1 =>
       /\ j = Len(events)
       /\ pc = "read"
       /\ tool_calls = <<>> /\ content = <<>>
       /\ events[j].ok => output = Answered(events[j].val)

\* C1 witness: a turn has ended whose second response holds a fenced block.
C1_Witness ==
  /\ pc = "read"
  /\ Cardinality(CompletionIdx) = 2
  /\ events[Len(events)].ok
  /\ Contains(OpenFence, Lower(events[Len(events)].val))
  /\ output.kind = "answer"

\* C2: when the first response holds no opening fence marker (the label in
\* any letter case), nothing is extracted, the turn makes one completion call
\* and no tool call, and it ends with the lower-cased first response as answer.
C2_DirectAnswer ==
  (FirstReturned /\ ~Contains(OpenFence, Lower(events[1].val))) =>
     /\ Len(events) = 1
     /\ tool_calls = <<>>
     /\ pc \in {"extract", "read"}
     /\ pc = "extract" => content = Lower(events[1].val)
     /\ pc = "read" => output = Answered(Lower(events[1].val))

\* C2 witness: such a turn has ended, and lower-casing changed the text.
C2_Witness ==
  /\ pc = "read"
  /\ FirstReturned
  /\ ~Contains(OpenFence, Lower(events[1].val))
  /\ output.kind = "answer"
  /\ Lower(events[1].val) # events[1].val

\* The turn ended in an error raised in the dispatch loop.
DispatchFailed ==
  output \in {Reported("McpError"), Reported("IndexError"), Reported("KeyError"),
             Reported("TypeError")}

\* C3: a turn that called tools and dispatched all its tool calls without
\* error made exactly two completion calls, the first before and the second
\* after all tool calls, and its answer is the second response unchanged.
C3_ToolPathAnswer ==
  (pc = "read" /\ ToolIdx # {} /\ ~DispatchFailed) =>
     LET n == Len(events)
     IN /\ CompletionIdx = {1, n}
        /\ ToolIdx = 2..(n - 1)
        /\ \A k \in ToolIdx : events[k].ok
        /\ events[n].ok => output = Answered(events[n].val)
        /\ ~events[n].ok => output = Reported(events[n].val)

\* C3 witness: a turn with two tool calls has ended with an answer that
\* lower-casing would have changed.
C3_Witness ==
  /\ pc = "read"
  /\ Cardinality(ToolIdx) >= 2
  /\ output.kind = "answer"
  /\ Lower(events[Len(events)].val) # events[Len(events)].val

\* The results of the current turn's tool calls, as call_tool returned them.
ResultsOf(n) == [i \in 1..n |-> <<events[i + 1].arg[1], events[i + 1].val>>]

\* C4 (as claimed): when the first response holds n well-formed fenced blocks
\* and the turn reaches the second completion, call_tool was invoked exactly n
\* times, the i-th time with the tool name and arguments of the i-th block,
\* and the second request carries the n results in that order.
C4_BlocksDispatchedInOrder ==
  (pc = "read" /\ FirstReturned /\ WellFormed(events[1].val)
     /\ Cardinality(CompletionIdx) = 2) =>
     LET blocks == TextBlocks(events[1].val)
         n == Len(blocks)
         request == events[Len(events)].arg
     IN /\ Len(events) = n + 2
        /\ \A i \in 1..n :
             /\ events[i + 1].op = "call_tool"
             /\ events[i + 1].arg[1] = JsonLoads(blocks[i]).tool_name
             /\ events[i + 1].arg[2] = JsonLoads(blocks[i]).tool_args
        /\ request[Len(request)].content =
             Replace(Replace(RESULT_PROMPT, "{query}", query), "{results}",
                     JsonDumps(ResultsOf(n)))

\* C5: when call_tool raises on the k-th tool call, that call is the last
\* request of the turn (no further tool call, no second completion), the turn
\* ends with that same error reported, and the results gathered so far are gone.
C5_ToolErrorAborts ==
  \A k \in ToolIdx : ~events[k].ok =>
     /\ k = Len(events)
     /\ pc = "read"
     /\ output = Reported(events[k].val)
     /\ tool_results = <<>>

\* C5 witness: the second tool call of a turn raised.
C5_Witness ==
  \E k \in ToolIdx : ~events[k].ok /\ k >= 3 /\ events[k - 1].ok

\* C6: when a fenced block of the first response is malformed (unterminated,
\* or its payload is not valid JSON; judged on the lower-cased text the
\* extractor parses), no tool is called in the turn, no second completion is
\* made, and the turn ends with the parse error reported instead of an answer.
C6_MalformedFailsTurn ==
  (FirstReturned /\ Malformed(Lower(events[1].val))) =>
     /\ ToolIdx = {}
     /\ Len(events) = 1
     /\ pc \in {"extract", "read"}
     /\ pc = "read" =>
          output \in {Reported("AttributeError"), Reported("JSONDecodeError")}

\* C6 witness: a turn has ended whose first response holds a well-formed
\* block followed by a malformed one.
C6_Witness ==
  /\ pc = "read"
  /\ FirstReturned
  /\ Malformed(Lower(events[1].val))
  /\ LET blocks == TextBlocks(Lower(events[1].val))
     IN Len(blocks) >= 2 /\ IsToolCall(blocks[1]) /\ JsonInvalid(blocks[2])
  /\ output.kind = "error"

\* The extraction loop stands before an opening fence that has no closing fence.
AtUnterminated ==
  /\ pc = "extract"
  /\ Contains(OpenFence, content)
  /\ SearchStart(CloseFence, SliceFrom(content, SearchEnd(OpenFence, content))) = None

\* C7: every step of the extraction loop either ends the loop or leaves a
\* strictly shorter remaining text, which is a suffix of the previous one.
C7_ExtractionShrinks ==
  [][pc = "extract" =>
       \/ pc' # "extract"
       \/ /\ Len(content') < Len(content)
          /\ content' = SliceFrom(content, Len(content) - Len(content'))]_vars

\* C7 witness: the loop has extracted a call and now stands before an
\* opening fence without closing fence.
C7_Witness == AtUnterminated /\ Len(tool_calls) >= 1

\* C8 (as claimed): an opening fence without closing fence ends the
\* extraction as if no fence were left: the turn goes on with the calls
\* extracted so far, or answers directly when there are none.
C8_UnterminatedYieldsCalls ==
  [][AtUnterminated =>
       /\ tool_calls # <<>> => (pc' = "dispatch" /\ tool_calls' = tool_calls)
       /\ tool_calls = <<>> => (pc' = "read" /\ output'.kind = "answer")]_vars

\* No step of process_query leaves chat_loop: it goes on or is back at the
\* prompt with the session and the tool prompt as they were; a failed
\* request ends the turn with that error printed; a turn ends with either an
\* answer or an error printed, and the locals of process_query are gone.
ProcessingStep ==
  (pc \in {"propose", "extract", "dispatch"} /\ failure' = "none") =>
       /\ pc' \in {"propose", "extract", "dispatch", "read"}
       /\ session' = "live" /\ tools_prompt' = tools_prompt
       /\ (Len(events') > Len(events) /\ ~events'[Len(events')].ok) =>
            (pc' = "read" /\ output' = Reported(events'[Len(events')].val))
       /\ pc' = "read" =>
            /\ output'.kind \in {"answer", "error"}
            /\ messages' = <<>> /\ content' = <<>>
            /\ tool_calls' = <<>> /\ tool_results' = <<>>

\* C9: every step of process_query is as ProcessingStep says: an error raised
\* while a query is processed is reported by chat_loop, which then waits for
\* the next line; no such error ends the loop.
C9_ErrorsCaughtAtLoop == [][ProcessingStep]_vars

\* C9 witness: after a turn that ended in an error, a turn has ended with an answer.
C9_Witness == pc = "read" /\ reported /\ output.kind = "answer"

\* A step of chat_loop that read a line (input() returned).
LineRead == pc = "read" /\ pc' # "read" /\ failure' = "none"

\* C10 (as claimed): a line equal to quit in any letter case ends the
\* session; every other line is forwarded to process_query.
C10_QuitLineOnly ==
  [][LineRead =>
       (IF Lower(line') = <<"quit">> THEN pc' = "cleanup" ELSE pc' = "propose")]_vars

\* A step of chat_loop as the amended C10 has it.
QuitStep ==
  /\ LineRead =>
       (IF Lower(Strip(line', " ")) = <<"quit">>
        THEN pc' = "cleanup" /\ events' = <<>>
        ELSE pc' = "propose" /\ query' = Strip(line', " "))
  /\ (pc' = "propose") => (pc = "read")
  /\ (pc \in {"cleanup", "exited"}) =>
       (pc' \in {"cleanup", "exited"} /\ events' = events /\ line' = line)

\* C10 (amended): a line that equals quit in any letter case once surrounding
\* whitespace is stripped ends the session without a request; every other
\* line is forwarded, stripped, to process_query, which is entered only by
\* such a line; once the loop is left nothing is read or processed.
C10_QuitAfterStrip == [][QuitStep]_vars

\* C10 witness: the session has ended on a quit line written in upper case.
C10_Witness == pc = "exited" /\ line = <<"QUIT">> /\ events = <<>>

\* C11: when connecting fails, main does nothing but its cleanup: chat_loop
\* is not entered, no line is read, nothing is printed, no request is made to
\* the completion endpoint or the tool session, and the tool prompt is never
\* filled in.
C11_ConnectFailureAborts ==
  failure = "ConnectError" =>
     /\ pc \in {"cleanup", "exited"}
     /\ line = <<>> /\ query = <<>>
     /\ events = <<>>
     /\ output = NoOutput
     /\ tools_prompt = TOOL_PROMPT

\* C11 witness: main has ended after a failed connect.
C11_Witness == failure = "ConnectError" /\ pc = "exited"

\* A step as C12 has it: process_query leaves self.tools_prompt and
\* self.session alone, and the first request of a turn carries exactly two
\* messages, the system prompt and the tool prompt filled in with the line
\* read for this turn.
StatelessStep ==
  /\ pc \in {"propose", "extract", "dispatch"} =>
       (tools_prompt' = tools_prompt /\ session' = session)
  /\ events' # <<>> =>
       /\ events'[1].op = "completion"
       /\ Len(events'[1].arg) = 2
       /\ events'[1].arg[1].content = TOOL_SYS_PROMPT
       /\ events'[1].arg[2] =
            [role |-> "user",
             content |-> Replace(tools_prompt, "{query}", Strip(line', " "))]

\* C12: no state is carried from one turn to the next: every step is as
\* StatelessStep says, whatever turns came before.
C12_NoStateAcrossTurns == [][StatelessStep]_vars

\* C12 witness: after a turn that ended in an error, the next turn has sent
\* its first request.
C12_Witness == reported /\ pc = "extract" /\ events # <<>>

\* The roles a conversation of n messages must have, in order: system, then
\* user and assistant in turn.
RoleAt(i) == IF i = 1 THEN "system" ELSE IF i % 2 = 0 THEN "user" ELSE "assistant"

\* C13 (as claimed): every message of every conversation sent to the
\* completion endpoint has a role field and a content field, the first
\* message has role system and the following ones alternate user, assistant.
C13_MessagesHaveRoles ==
  \A j \in CompletionIdx : \A i \in DOMAIN events[j].arg :
     /\ {"role", "content"} \subseteq DOMAIN events[j].arg[i]
     /\ events[j].arg[i].role = RoleAt(i)

\* The catalog list_tools() returned at connection time.
ListedTools ==
  CHOOSE tools \in Catalogs :
    tools_prompt = Replace(TOOL_PROMPT, "{tools}", ToolsList(tools))

\* TRUE iff text holds `first` and, somewhere after it, `second`.
FollowedBy(first, second, text) ==
  \E i \in 0..Len(text) :
     /\ MatchesAt(first, text, i)
     /\ Contains(second, SliceFrom(text, i + Len(first)))

\* C14 (as claimed): for every catalog the tool session returned, the user
\* prompt of each turn holds, in session order, every descriptor's name,
\* description and input schema, and after them the user's query; for the
\* empty catalog it holds no descriptor and the query.
C14_PromptHoldsCatalogAndQuery ==
  (pc # "connect" /\ session = "live" /\ events # <<>>) =>
     FollowedBy(ToolsList(ListedTools), query, events[1].arg[2].content)

\* The tool calls written in a text: the well-formed blocks, as written.
WrittenCalls(t) ==
  {JsonLoads(TextBlocks(t)[i]) : i \in {k \in DOMAIN TextBlocks(t) : IsToolCall(TextBlocks(t)[k])}}

\* C15 (as claimed): the tool name and the argument mapping of every
\* call_tool request are the tool_name and tool_args of a block written in
\* the first response, no character altered.
C15_CallsAsWritten ==
  \A i \in ToolIdx :
     \E call \in WrittenCalls(events[1].val) :
        events[i].arg = <<call.tool_name, call.tool_args>>

\* What is left of c after its first fenced block, closing fence included.
AfterFirstBlock(c) ==
  LET json_start == SearchEnd(OpenFence, c)
      json_end == SearchStart(CloseFence, SliceFrom(c, json_start)) + json_start
  IN SliceFrom(c, json_end + Len(CloseFence))

\* A step of the extraction loop that parsed a block leaves the text after
\* that block's closing fence to be scanned.
ParsedBlockStep ==
  (pc = "extract" /\ Len(tool_calls') = Len(tool_calls) + 1) =>
     content' = AfterFirstBlock(content)

\* C16 (as claimed): after a block is parsed the scan goes on after its
\* closing fence, so that fence is never matched as a further opening fence.
C16_ScanPastClosingFence == [][ParsedBlockStep]_vars

\* The tool results of the current turn, in call order, as process_query
\* collects them.
TurnResults ==
  LET idx == [k \in 1..Cardinality(ToolIdx) |->
                CHOOSE i \in ToolIdx : Cardinality({j \in ToolIdx : j < i}) = k - 1]
  IN [k \in 1..Cardinality(ToolIdx) |-> <<events[idx[k]].arg[1], events[idx[k]].val>>]

\* C17 (as claimed): the second request is the first request followed by an
\* assistant message holding the complete first response and one user
\* message that embeds the query unaltered and the serialized results of all
\* tool calls of the turn.
C17_SecondConversation ==
  Cardinality(CompletionIdx) = 2 =>
     LET first == events[1].arg
         second == events[Len(events)].arg
     IN /\ Len(second) = Len(first) + 2
        /\ SubSeq(second, 1, Len(first)) = first
        /\ second[Len(first) + 1] = [role |-> "assistant", content |-> events[1].val]
        /\ second[Len(second)].role = "user"
        /\ Contains(query, second[Len(second)].content)
        /\ Contains(JsonDumps(TurnResults), second[Len(second)].content)

\* Where main stands while chat_loop's `while True` is running.
InLoop == {"read", "propose", "extract", "dispatch"}

\* C18 (as claimed): chat_loop is left only by a step that read a quit line.
C18_LeftByQuitOnly ==
  [][(pc \in InLoop /\ pc' \notin InLoop) =>
       (pc = "read" /\ IsQuit(Strip(line', " ")) /\ line' \in Lines)]_vars

\* A step of chat_loop as the amended C18 has it.
LoopStep ==
  /\ (pc \in InLoop /\ pc' \notin InLoop) =>
       /\ pc' = "cleanup"
       /\ \/ failure' = "KeyboardInterrupt"
          \/ pc = "read" /\ failure' = "none" /\ IsQuit(Strip(line', " "))
  /\ (pc \in InLoop /\ failure' = "none" /\ output'.kind = "error") =>
       (pc' = "read" /\ output'.val[2] = "Error: ")
  /\ (pc = "read" /\ failure' = "none" /\ pc' = "read") =>
       (output' = Reported("EOFError") /\ line' = line /\ events' = <<>>
          /\ session' = session /\ cleanups' = cleanups)

\* C18 (amended): chat_loop is left only by a step that read a quit line
\* (any letter case, surrounding blanks stripped) or by an error that is not
\* an Exception, such as an interrupt; every Exception raised inside an
\* iteration is printed and followed by another read attempt, and when
\* input() itself raises one the loop stays at the prompt: nothing is
\* requested, nothing is cleaned up.
C18_LeftByQuitOrInterrupt == [][LoopStep]_vars

\* C18 witness: after a turn that failed, input() raised and the loop is
\* back at the prompt.
C18_Witness ==
  pc = "read" /\ reported /\ output = Reported("EOFError") /\ cleanups = 0

\* A parsed block that can be dispatched: a mapping with both fields.
ShapeOk(v) == IsMapping(v) /\ {"tool_name", "tool_args"} \subseteq DOMAIN v

\* The dispatch loop stands at a parsed block that lacks a field or is not a
\* mapping.
AtBadBlock ==
  /\ pc = "dispatch"
  /\ Len(tool_results) < Len(tool_calls)
  /\ ~ShapeOk(tool_calls[Len(tool_results) + 1])

\* The extraction never judges the structure of what it parsed; the dispatch
\* loop reaches the j-th parsed block with exactly the tools of blocks
\* 1..j-1 invoked, and when that block has not the structure of a tool call
\* the turn ends there with the error reported and no further request.
StructureStep ==
  /\ (pc = "extract" /\ failure' = "none") =>
       /\ events' = events
       /\ output' \notin {Reported("KeyError"), Reported("TypeError")}
       /\ Len(tool_calls') > Len(tool_calls) =>
            SubSeq(tool_calls', 1, Len(tool_calls)) = tool_calls
  /\ (AtBadBlock /\ failure' = "none") =>
       LET j == Len(tool_results) + 1
       IN /\ ToolIdx = 2..j
          /\ CompletionIdx = {1}
          /\ \A i \in 1..(j - 1) :
               /\ events[i + 1].ok
               /\ events[i + 1].arg = <<tool_calls[i].tool_name, tool_calls[i].tool_args>>
          /\ events' = events
          /\ pc' = "read"
          /\ output' \in {Reported("KeyError"), Reported("TypeError")}
          /\ tool_calls' = <<>>

C20_CleanupExactlyOnce ==
  /\ cleanups = (IF pc = "exited" THEN 1 ELSE 0)
  /\ pc \in {"cleanup", "exited"} =>
       /\ messages = <<>> /\ content = <<>>
       /\ tool_calls = <<>> /\ tool_results = <<>>
       /\ \/ failure = "ConnectError"
          \/ failure = "KeyboardInterrupt" /\ session = (IF pc = "exited" THEN "closed" ELSE "live")
          \/ failure = "none" /\ IsQuit(Strip(line, " "))
  /\ pc = "exited" => session # "live"

\* C20 witness: main has ended, cleaned up, after an interrupt left chat_loop.
C20_Witness ==
  pc = "exited" /\ failure = "KeyboardInterrupt" /\ cleanups = 1 /\ session = "closed"

====
